---- MODULE Spec2Model ----
(***************************************************************************)
(* State controller of the lighting-effect single page application (App):  *)
(* the React state of the App component, the file reads and remote effect  *)
(* calls in flight, and one action per event handler or callback.          *)
(*                                                                         *)
(* Strings the code takes apart (MIME types, file names, data URLs) are    *)
(* sequences of one-character strings; a nullable value (T | null) is the  *)
(* empty sequence (None) or a one-element sequence (Some(x)).              *)
(***************************************************************************)
EXTENDS Integers, Sequences, FiniteSets

\* ------------------------------------------------------------------ bounds
\* Remote effect calls in flight at the same time.
MaxPending == 2
\* File reads in flight at the same time.
MaxReads == 1

\* --------------------------------------------------------- nullable values
None == <<>>
Some(x) == <<x>>

\* ------------------------------------------------------------------- types
\* SunlightIntensity = 1 | 2 | 3 (the range input's min and max).
MinIntensity == 1
MaxIntensity == 3
SunlightIntensity == MinIntensity..MaxIntensity

\* SunlightDirection, in the order of directionLabels.
SunlightDirection == <<"top", "left", "center", "right", "bottom">>

\* LightingEffect: the items of the Add menu and of the Remove menu, in order.
AddEffects == <<"sunlight", "shadows", "sunlight-and-shadows">>
RemoveEffects == <<"remove-sunlight", "remove-shadows", "remove-sunlight-and-shadows">>
LightingEffect == {AddEffects[i] : i \in 1..3} \cup {RemoveEffects[i] : i \in 1..3}

\* The inputs explored: the menu items, directions and intensities the user
\* picks (the controls start at intensity 2 and direction "top").
PickedAdd == {AddEffects[1]}
PickedRemove == {RemoveEffects[1]}
PickedDirections == {SunlightDirection[1]}
PickedIntensities == {i \in SunlightIntensity : i >= 2}

\* ------------------------------------------------------- string functions
\* String.prototype.startsWith
StartsWith(s, p) == Len(s) >= Len(p) /\ SubSeq(s, 1, Len(p)) = p

\* String.prototype.split(sep) for a one-character separator.
RECURSIVE SplitFrom(_, _, _)
SplitFrom(s, sep, cur) ==
    IF s = <<>> THEN <<cur>>
    ELSE IF Head(s) = sep THEN <<cur>> \o SplitFrom(Tail(s), sep, <<>>)
    ELSE SplitFrom(Tail(s), sep, Append(cur, Head(s)))

Split(s, sep) == SplitFrom(s, sep, <<>>)

\* Array.prototype.join(sep)
RECURSIVE Join(_, _)
Join(parts, sep) ==
    IF parts = <<>> THEN <<>>
    ELSE IF Len(parts) = 1 THEN parts[1]
    ELSE parts[1] \o <<sep>> \o Join(Tail(parts), sep)

\* Array.prototype.slice(0, -1)
DropLast(parts) == SubSeq(parts, 1, Len(parts) - 1)

\* a || b on strings: the empty string is falsy.
OrElse(a, b) == IF a # <<>> THEN a ELSE b

\* --------------------------------------------------------- files and images
ImagePrefix == <<"i", "m", "a", "g", "e", "/">>

\* The files the user can select: File objects with type, name and content
\* (the content as the base64 text FileReader produces for it).
Files ==
    { [type |-> ImagePrefix \o <<"p", "n", "g">>,
       name |-> <<"a", ".", "b", ".", "p", "n", "g">>,
       data |-> <<"Q", "Q">>],
      [type |-> ImagePrefix \o <<"g", "i", "f">>,
       name |-> <<"c">>,
       data |-> <<"R">>],
      [type |-> <<"t", "e", "x", "t", "/", "i", "m", "a", "g", "e", "/">>,
       name |-> <<"n", ".", "t", "x", "t">>,
       data |-> <<"S">>] }

\* String.prototype.includes
Includes(s, p) == \E i \in 0..(Len(s) - Len(p)) : SubSeq(s, i + 1, i + Len(p)) = p

\* Variant of IsImageType: file.type.includes('image/')
IsImageTypeAnywhere(file) == Includes(file.type, ImagePrefix)

\* file.type.startsWith('image/')
IsImageType(file) == StartsWith(file.type, ImagePrefix)

\* FileReader.readAsDataURL: "data:<type>;base64,<content>"
ReadAsDataURL(file) ==
    <<"d", "a", "t", "a", ":">> \o file.type
        \o <<";", "b", "a", "s", "e", "6", "4", ",">> \o file.data

\* Variant of Base64String: split(',')[0], the data URL's header
Base64StringHeader(url) == Split(url, ",")[1]

\* (e.target?.result as string).split(',')[1]
Base64String(url) == Split(url, ",")[2]

\* { base64: base64String, mimeType: file.type, name: file.name }
LoadedImage(file) ==
    [base64 |-> Base64String(ReadAsDataURL(file)), mimeType |-> file.type, name |-> file.name]

\* The images the remote service returns (data URLs, opaque to the controller).
GeneratedImages == {<<"generated", 1>>, <<"generated", 2>>}

\* The failures of the remote call: err.message is a string, possibly empty,
\* or absent (then it reads as undefined, which is falsy like "").
NoMessage == <<>>
ErrorMessages == {NoMessage, <<"quota">>}

UploadInvalidMessage == <<"Please upload a valid image file (e.g., JPEG, PNG, WEBP).">>
ReadFailedMessage == <<"Failed to read the selected file.">>
NoImageMessage == <<"Please upload an image first.">>
FallbackMessage == <<"An unexpected error occurred.">>

\* ------------------------------------------------------------------- state
VARIABLES
    originalImage,      \* ImageFile | null
    generatedImage,     \* string | null
    isLoading,          \* boolean
    error,              \* string | null
    activeProcess,      \* LightingEffect | 'variation' | null
    sunlightIntensity,  \* SunlightIntensity
    sunlightDirection,  \* SunlightDirection
    lastAppliedConfig,  \* { effect, intensity, direction } | null
    isAddMenuOpen,      \* boolean
    isRemoveMenuOpen,   \* boolean
    reads,              \* file -> number of FileReader reads of it in flight
    pending,            \* the applyLightingEffect calls in flight, in the order started
    lastEvent           \* the handler or callback that ran last, and what it emitted

appState == <<originalImage, generatedImage, isLoading, error, activeProcess,
              sunlightIntensity, sunlightDirection, lastAppliedConfig,
              isAddMenuOpen, isRemoveMenuOpen>>

vars == <<originalImage, generatedImage, isLoading, error, activeProcess,
          sunlightIntensity, sunlightDirection, lastAppliedConfig,
          isAddMenuOpen, isRemoveMenuOpen, reads, pending, lastEvent>>

\* An event record: the handler that ran (op; "other" for the menus and the
\* controls); the file it was given; the remote calls it started; the remote
\* call that completed (call), its place among the calls in flight (pos), how
\* it completed (ok) and with which image or message (value); the file a
\* download saved; for a completed read, whether generated result,
\* configuration and error were all set before it and the image another one,
\* and for an effect request, whether generated result and error were set
\* before it (full); and, when the event just before it was a successful
\* completion, that call's image and whether it had been started later (before).
Event(op) ==
    [op |-> op, file |-> None, started |-> <<>>, call |-> None, pos |-> 0, ok |-> FALSE,
     value |-> None, saved |-> None, full |-> FALSE, before |-> None]

RECURSIVE SumReads(_)
SumReads(S) ==
    IF S = {} THEN 0
    ELSE LET f == CHOOSE x \in S : TRUE IN reads[f] + SumReads(S \ {f})

\* useState initial values.
Init ==
    /\ originalImage = None
    /\ generatedImage = None
    /\ isLoading = FALSE
    /\ error = None
    /\ activeProcess = None
    /\ sunlightIntensity = 2
    /\ sunlightDirection = "top"
    /\ lastAppliedConfig = None
    /\ isAddMenuOpen = FALSE
    /\ isRemoveMenuOpen = FALSE
    /\ reads = [f \in Files |-> 0]
    /\ pending = <<>>
    /\ lastEvent = Event("init")

\* ------------------------------------------------------------ file upload
\* handleImageUpload: a non-image file sets the error; an image file starts a
\* FileReader read (event.target.files is empty when the dialog is cancelled:
\* nothing happens, and nothing is modelled).
handleImageUpload(file) ==
    /\ IF ~IsImageType(file)
         THEN /\ error' = Some(UploadInvalidMessage)
              /\ UNCHANGED reads
         ELSE /\ SumReads(Files) < MaxReads
              /\ reads' = [reads EXCEPT ![file] = @ + 1]
              /\ UNCHANGED error
    /\ lastEvent' = [Event("handleImageUpload") EXCEPT !.file = Some(file)]
    /\ UNCHANGED <<originalImage, generatedImage, isLoading, activeProcess,
                   sunlightIntensity, sunlightDirection, lastAppliedConfig,
                   isAddMenuOpen, isRemoveMenuOpen, pending>>

\* reader.onload
readerOnload(file) ==
    /\ reads[file] > 0
    /\ reads' = [reads EXCEPT ![file] = @ - 1]
    /\ originalImage' = Some(LoadedImage(file))
    /\ generatedImage' = None
    /\ lastAppliedConfig' = None
    /\ error' = None
    /\ lastEvent' = [Event("onload") EXCEPT
                       !.file = Some(file),
                       !.full = (generatedImage # None /\ lastAppliedConfig # None
                                 /\ error # None /\ originalImage # None
                                 /\ originalImage # Some(LoadedImage(file)))]
    /\ UNCHANGED <<isLoading, activeProcess, sunlightIntensity, sunlightDirection,
                   isAddMenuOpen, isRemoveMenuOpen, pending>>

\* reader.onerror
readerOnerror(file) ==
    /\ reads[file] > 0
    /\ reads' = [reads EXCEPT ![file] = @ - 1]
    /\ error' = Some(ReadFailedMessage)
    /\ lastEvent' = [Event("onerror") EXCEPT !.file = Some(file)]
    /\ UNCHANGED <<originalImage, generatedImage, isLoading, activeProcess,
                   sunlightIntensity, sunlightDirection, lastAppliedConfig,
                   isAddMenuOpen, isRemoveMenuOpen, pending>>

\* ---------------------------------------------------------------- download
\* originalImage.name.split('.').slice(0, -1).join('.') || 'image'
DownloadStem(name) == OrElse(Join(DropLast(Split(name, ".")), "."), <<"image">>)

\* lastAppliedConfig?.effect || 'enhanced'
DownloadEffectName == IF lastAppliedConfig # None THEN lastAppliedConfig[1].effect ELSE "enhanced"

\* `${name}-${effectName}.png`
DownloadName == DownloadStem(originalImage[1].name) \o <<"-", DownloadEffectName, ".png">>

\* Variant of CanDownload: only !originalImage is tested
CanDownloadOriginal == originalImage # None

\* !(!generatedImage || !originalImage)
CanDownload == generatedImage # None /\ originalImage # None

\* handleDownload: the link that is clicked carries href and download name.
handleDownload ==
    /\ lastEvent' = [Event("handleDownload") EXCEPT
                       !.saved = IF CanDownload
                                   THEN Some([href |-> generatedImage, download |-> DownloadName])
                                   ELSE None]
    /\ UNCHANGED <<appState, reads, pending>>

\* ------------------------------------------------------------ remote calls
\* Variant of NoOriginalImage: runEffect without its precondition
NoOriginalImageSkipped == FALSE

\* !originalImage
NoOriginalImage == originalImage = None

\* Variant of NewCall: the closure of the first render (useCallback without
\* its dependency), whose originalImage is null
NewCallFirstRender(effect, intensity, direction, processType) ==
    [image |-> None, effect |-> effect,
     intensity |-> intensity, direction |-> direction, processType |-> processType]

\* applyLightingEffect(originalImage, effect, intensity, direction): the call
\* as issued, with the image the runEffect closure holds and the processType
\* its continuation will test.
NewCall(effect, intensity, direction, processType) ==
    [image |-> originalImage, effect |-> effect,
     intensity |-> intensity, direction |-> direction, processType |-> processType]

\* runEffect up to its await: the precondition error, or the flags, the
\* cleared error and result, and the remote call.
runEffect(effect, intensity, direction, processType) ==
    IF NoOriginalImage
      THEN /\ error' = Some(NoImageMessage)
           /\ UNCHANGED <<originalImage, generatedImage, isLoading, activeProcess,
                          sunlightIntensity, sunlightDirection, lastAppliedConfig,
                          reads, pending>>
      ELSE /\ Len(pending) < MaxPending
           /\ isLoading' = TRUE
           /\ activeProcess' = Some(processType)
           /\ error' = None
           /\ generatedImage' = None
           /\ pending' = Append(pending, NewCall(effect, intensity, direction, processType))
           /\ UNCHANGED <<originalImage, sunlightIntensity, sunlightDirection,
                          lastAppliedConfig, reads>>

\* Variant of ResultStored: a result already shown is kept
ResultStoredIfEmpty(result) == IF generatedImage # None THEN generatedImage ELSE Some(result)

\* setGeneratedImage(result)
ResultStored(result) == Some(result)

\* Variant of StoresConfig: processType === 'variation'
StoresConfigInverted(processType) == processType = "variation"

\* processType !== 'variation'
StoresConfig(processType) == processType # "variation"

\* { effect, intensity, direction } of the runEffect invocation
ConfigUsed(call) ==
    [effect |-> call.effect, intensity |-> call.intensity, direction |-> call.direction]

\* Variant of Finally: setActiveProcess(null) left out
FinallyKeepsProcess ==
    /\ isLoading' = FALSE
    /\ UNCHANGED activeProcess

\* Variant of Finally: setIsLoading(false) left out
FinallyKeepsLoading ==
    /\ UNCHANGED isLoading
    /\ activeProcess' = None

\* finally: setIsLoading(false); setActiveProcess(null)
Finally ==
    /\ isLoading' = FALSE
    /\ activeProcess' = None

\* pending without its i-th call
Without(i) == SubSeq(pending, 1, i - 1) \o SubSeq(pending, i + 1, Len(pending))

\* The event just before was a successful completion: that call's image, and
\* whether it had been started after the i-th call now in flight.
JustResolved(i) ==
    IF lastEvent.op = "resolved" /\ lastEvent.ok
      THEN Some([image |-> lastEvent.value[1], startedLater |-> i < lastEvent.pos])
      ELSE None

\* runEffect after its await, the call having resolved with result.
runEffectResolved(i, result) ==
    /\ i \in 1..Len(pending)
    /\ pending' = Without(i)
    /\ generatedImage' = ResultStored(result)
    /\ lastAppliedConfig' = IF StoresConfig(pending[i].processType)
                              THEN Some(ConfigUsed(pending[i]))
                              ELSE lastAppliedConfig
    /\ Finally
    /\ lastEvent' = [Event("resolved") EXCEPT
                       !.call = Some(pending[i]), !.pos = i, !.ok = TRUE,
                       !.value = Some(result), !.before = JustResolved(i)]
    /\ UNCHANGED <<originalImage, error, sunlightIntensity, sunlightDirection,
                   isAddMenuOpen, isRemoveMenuOpen, reads>>

\* Variant of ErrorText: err.message without the fallback
ErrorTextRaw(message) == message

\* err.message || "An unexpected error occurred."
ErrorText(message) == OrElse(message, FallbackMessage)

\* runEffect after its await, the call having rejected with err.
runEffectRejected(i, message) ==
    /\ i \in 1..Len(pending)
    /\ pending' = Without(i)
    /\ error' = Some(ErrorText(message))
    /\ Finally
    /\ lastEvent' = [Event("rejected") EXCEPT
                       !.call = Some(pending[i]), !.pos = i, !.value = Some(message)]
    /\ UNCHANGED <<originalImage, generatedImage, lastAppliedConfig,
                   sunlightIntensity, sunlightDirection,
                   isAddMenuOpen, isRemoveMenuOpen, reads>>

\* handleEffectClick: closes both menus and runs the effect with the
\* intensity and direction the controls show.
handleEffectClick(effect) ==
    /\ isAddMenuOpen' = FALSE
    /\ isRemoveMenuOpen' = FALSE
    /\ runEffect(effect, sunlightIntensity, sunlightDirection, effect)
    /\ lastEvent' = [Event("handleEffectClick") EXCEPT
                       !.value = Some(effect),
                       !.full = (generatedImage # None /\ error # None),
                       !.started = SubSeq(pending', Len(pending) + 1, Len(pending'))]

\* Variant of VariationConfig: falls back to sunlight with the controls' values
VariationConfigOrShown ==
    IF lastAppliedConfig # None
      THEN lastAppliedConfig
      ELSE Some([effect |-> "sunlight", intensity |-> sunlightIntensity,
                 direction |-> sunlightDirection])

\* lastAppliedConfig, when handleVariationClick has one to replay
VariationConfig == lastAppliedConfig

\* Variant of VariationArgs: the controls' intensity and direction
VariationArgsShown(config) ==
    [effect |-> config.effect, intensity |-> sunlightIntensity, direction |-> sunlightDirection]

\* The arguments handleVariationClick passes on from the stored configuration.
VariationArgs(config) ==
    [effect |-> config.effect, intensity |-> config.intensity, direction |-> config.direction]

\* handleVariationClick
handleVariationClick ==
    /\ IF VariationConfig # None
         THEN LET args == VariationArgs(VariationConfig[1])
              IN  runEffect(args.effect, args.intensity, args.direction, "variation")
         ELSE UNCHANGED <<originalImage, generatedImage, isLoading, error, activeProcess,
                          sunlightIntensity, sunlightDirection, lastAppliedConfig,
                          reads, pending>>
    /\ lastEvent' = [Event("handleVariationClick") EXCEPT
                       !.started = SubSeq(pending', Len(pending) + 1, Len(pending'))]
    /\ UNCHANGED <<isAddMenuOpen, isRemoveMenuOpen>>

\* ----------------------------------------------------- menus and controls
\* handleClickOutside, the document's mousedown listener: a menu closes unless
\* the target is inside its container (both containers are always mounted).
\* target: "add" or "remove" for a node inside that container, else "other".
handleClickOutside(target) ==
    /\ isAddMenuOpen' = IF target # "add" THEN FALSE ELSE isAddMenuOpen
    /\ isRemoveMenuOpen' = IF target # "remove" THEN FALSE ELSE isRemoveMenuOpen
    /\ lastEvent' = Event("other")
    /\ UNCHANGED <<originalImage, generatedImage, isLoading, error, activeProcess,
                   sunlightIntensity, sunlightDirection, lastAppliedConfig,
                   reads, pending>>

\* onClick of the Add Effect button: setIsAddMenuOpen(!isAddMenuOpen)
toggleAddMenu ==
    /\ isAddMenuOpen' = ~isAddMenuOpen
    /\ lastEvent' = Event("other")
    /\ UNCHANGED <<originalImage, generatedImage, isLoading, error, activeProcess,
                   sunlightIntensity, sunlightDirection, lastAppliedConfig,
                   isRemoveMenuOpen, reads, pending>>

\* onClick of the Remove Effect button: setIsRemoveMenuOpen(!isRemoveMenuOpen)
toggleRemoveMenu ==
    /\ isRemoveMenuOpen' = ~isRemoveMenuOpen
    /\ lastEvent' = Event("other")
    /\ UNCHANGED <<originalImage, generatedImage, isLoading, error, activeProcess,
                   sunlightIntensity, sunlightDirection, lastAppliedConfig,
                   isAddMenuOpen, reads, pending>>

\* onChange of the intensity range input
setSunlightIntensity(intensity) ==
    /\ sunlightIntensity' = intensity
    /\ lastEvent' = Event("other")
    /\ UNCHANGED <<originalImage, generatedImage, isLoading, error, activeProcess,
                   sunlightDirection, lastAppliedConfig,
                   isAddMenuOpen, isRemoveMenuOpen, reads, pending>>

\* onClick of a direction button
setSunlightDirection(direction) ==
    /\ sunlightDirection' = direction
    /\ lastEvent' = Event("other")
    /\ UNCHANGED <<originalImage, generatedImage, isLoading, error, activeProcess,
                   sunlightIntensity, lastAppliedConfig,
                   isAddMenuOpen, isRemoveMenuOpen, reads, pending>>

\* -------------------------------------------------- what the page renders
\* disabled={!originalImage || isLoading} on the menu buttons and the controls
ControlsEnabled == originalImage # None /\ ~isLoading

\* disabled={!lastAppliedConfig || isLoading} on the More Variations button
VariationEnabled == lastAppliedConfig # None /\ ~isLoading

\* imageSrc && !isLoading && onDownload: the download button is rendered
DownloadShown == generatedImage # None /\ ~isLoading

\* ------------------------------------------------- the user on the page
\* Each action is one DOM event reaching its listener. A click needs its
\* element rendered and enabled; it is not tied to a mousedown (a focused
\* button is also activated from the keyboard), so mousedown is an event of
\* its own. The file input is never disabled.
SelectFile == \E file \in Files : handleImageUpload(file)

FileLoaded == \E file \in Files : readerOnload(file)

FileReadFailed == \E file \in Files : readerOnerror(file)

MouseDown == \E target \in {"add", "remove", "other"} : handleClickOutside(target)

ClickAddButton == ControlsEnabled /\ toggleAddMenu

ClickRemoveButton == ControlsEnabled /\ toggleRemoveMenu

ClickAddItem == isAddMenuOpen /\ \E effect \in PickedAdd : handleEffectClick(effect)

ClickRemoveItem == isRemoveMenuOpen /\ \E effect \in PickedRemove : handleEffectClick(effect)

ChangeIntensity ==
    ControlsEnabled /\ \E intensity \in PickedIntensities : setSunlightIntensity(intensity)

ClickDirection ==
    ControlsEnabled /\ \E direction \in PickedDirections : setSunlightDirection(direction)

ClickVariation == VariationEnabled /\ handleVariationClick

ClickDownload == DownloadShown /\ handleDownload

CallResolves ==
    \E i \in 1..Len(pending), result \in GeneratedImages : runEffectResolved(i, result)

CallRejects ==
    \E i \in 1..Len(pending), message \in ErrorMessages : runEffectRejected(i, message)

Next ==
    \/ SelectFile
    \/ FileLoaded
    \/ FileReadFailed
    \/ MouseDown
    \/ ClickAddButton
    \/ ClickRemoveButton
    \/ ClickAddItem
    \/ ClickRemoveItem
    \/ ChangeIntensity
    \/ ClickDirection
    \/ ClickVariation
    \/ ClickDownload
    \/ CallResolves
    \/ CallRejects

Spec == Init /\ [][Next]_vars

\* --------------------------------------- the controller's operations alone
\* The operations invoked in any state, whatever the page renders: Upload,
\* RequestEffect, RequestVariation and Download as transition functions.
RequestEffect == \E effect \in PickedAdd \cup PickedRemove : handleEffectClick(effect)

RequestVariation == handleVariationClick

Download == handleDownload

SetIntensity == \E intensity \in PickedIntensities : setSunlightIntensity(intensity)

SetDirection == \E direction \in PickedDirections : setSunlightDirection(direction)

OpNext ==
    \/ SelectFile
    \/ FileLoaded
    \/ FileReadFailed
    \/ RequestEffect
    \/ RequestVariation
    \/ Download
    \/ SetIntensity
    \/ SetDirection
    \/ CallResolves
    \/ CallRejects

OpSpec == Init /\ [][OpNext]_vars

\* ------------------------------------------------ every call is answered
\* The page under the assumption that the remote service answers every call:
\* a completion is enabled as long as a call is in flight, and one happens.
Settle == CallResolves \/ CallRejects

FairSpec == Spec /\ WF_vars(Settle)

\* ================================================================== claims
\* C1: at most one remote effect call is in flight in every reachable state of
\* the page (no sequence of user events starts one while another is pending).
AtMostOneInFlight == Len(pending) <= 1

\* C2: an upload of a file whose MIME type does not start with "image/" sets
\* the error message, leaves UploadedImage, the generated result, the last
\* applied configuration, the loading flag and activeProcess unchanged, and
\* starts no file read.
NonImageUploadRejected ==
    [][\A file \in Files :
         (/\ lastEvent'.op = "handleImageUpload"
          /\ lastEvent'.file = Some(file)
          /\ ~StartsWith(file.type, ImagePrefix))
         => /\ error' = Some(UploadInvalidMessage)
            /\ UNCHANGED <<originalImage, generatedImage, lastAppliedConfig,
                           isLoading, activeProcess, reads, pending>>]_vars

\* C2 witness: a non-image file was just rejected while an image, a generated
\* result and a configuration were present.
NonImageUploadRejectedWitness ==
    /\ lastEvent.op = "handleImageUpload"
    /\ lastEvent.file # None
    /\ ~StartsWith(lastEvent.file[1].type, ImagePrefix)
    /\ error = Some(UploadInvalidMessage)
    /\ originalImage # None
    /\ generatedImage # None
    /\ lastAppliedConfig # None

\* C3: when the read of a valid image file completes, UploadedImage is the new
\* file (bytes, MIME type, name) and the generated result, the last applied
\* configuration and the error are none.
UploadReplacesAndClears ==
    lastEvent.op = "onload"
    => /\ originalImage = Some([base64 |-> lastEvent.file[1].data,
                                mimeType |-> lastEvent.file[1].type,
                                name |-> lastEvent.file[1].name])
       /\ generatedImage = None
       /\ lastAppliedConfig = None
       /\ error = None

\* C3 witness: the read completed while another image, a generated result, a
\* configuration and an error were all present.
UploadReplacesAndClearsWitness ==
    /\ lastEvent.op = "onload"
    /\ lastEvent.full
    /\ originalImage # None
    /\ originalImage[1].base64 = lastEvent.file[1].data
    /\ generatedImage = None

\* C4: RequestEffect with no image uploaded sets the precondition error and
\* issues no remote call; loading stays false, activeProcess stays none, the
\* generated result and the last applied configuration are unchanged.
NoImageNoCall ==
    [][(lastEvent'.op = "handleEffectClick" /\ originalImage = None)
       => /\ error' = Some(NoImageMessage)
          /\ pending' = pending
          /\ ~isLoading' /\ ~isLoading
          /\ activeProcess' = None /\ activeProcess = None
          /\ UNCHANGED <<generatedImage, lastAppliedConfig, originalImage>>]_vars

\* C4 witness: an effect was just requested with no image, and the error is set.
NoImageNoCallWitness ==
    /\ lastEvent.op = "handleEffectClick"
    /\ originalImage = None
    /\ error = Some(NoImageMessage)
    /\ lastEvent.started = <<>>
    /\ pending = <<>>

\* C5: when a request whose process tag is not "variation" resolves, the last
\* applied configuration is the (effect, intensity, direction) passed to that
\* remote call and the generated result is the image the call returned.
SuccessStoresConfigUsed ==
    (lastEvent.op = "resolved" /\ lastEvent.call[1].processType # "variation")
    => /\ lastAppliedConfig = Some([effect |-> lastEvent.call[1].effect,
                                    intensity |-> lastEvent.call[1].intensity,
                                    direction |-> lastEvent.call[1].direction])
       /\ generatedImage = lastEvent.value

\* C5 witness: a request from the Remove menu resolved; its parameters are
\* the configuration and its image is the generated result.
SuccessStoresConfigUsedWitness ==
    /\ lastEvent.op = "resolved"
    /\ lastEvent.call[1].processType = "remove-sunlight"
    /\ lastAppliedConfig # None
    /\ lastAppliedConfig[1].effect = "remove-sunlight"
    /\ lastAppliedConfig[1].intensity = lastEvent.call[1].intensity
    /\ generatedImage = lastEvent.value

\* C6: RequestVariation with no last applied configuration changes no state
\* variable and issues no remote call.
VariationWithoutConfigNoOp ==
    [][(lastEvent'.op = "handleVariationClick" /\ lastAppliedConfig = None)
       => UNCHANGED <<appState, reads, pending>>]_vars

\* C6 witness: a variation was just requested with an image uploaded and no
\* configuration stored; nothing is in flight.
VariationWithoutConfigNoOpWitness ==
    /\ lastEvent.op = "handleVariationClick"
    /\ lastEvent.started = <<>>
    /\ lastAppliedConfig = None
    /\ originalImage # None
    /\ pending = <<>>
    /\ ~isLoading

\* C7: RequestVariation with a stored configuration issues a remote call with
\* the stored effect, intensity and direction, tags activeProcess "variation",
\* and its success leaves the last applied configuration unchanged.
VariationReplaysStored ==
    [][/\ (lastEvent'.op = "handleVariationClick" /\ lastAppliedConfig # None)
          => /\ Len(pending') = Len(pending) + 1
             /\ pending'[Len(pending')].effect = lastAppliedConfig[1].effect
             /\ pending'[Len(pending')].intensity = lastAppliedConfig[1].intensity
             /\ pending'[Len(pending')].direction = lastAppliedConfig[1].direction
             /\ pending'[Len(pending')].processType = "variation"
             /\ activeProcess' = Some("variation")
       /\ (lastEvent'.op = "resolved" /\ lastEvent'.call[1].processType = "variation")
          => lastAppliedConfig' = lastAppliedConfig]_vars

\* C7 witness: a variation resolved that was issued with the stored intensity
\* while the intensity control shows another one; the configuration is kept.
VariationReplaysStoredWitness ==
    /\ lastEvent.op = "resolved"
    /\ lastEvent.call[1].processType = "variation"
    /\ lastEvent.call[1].intensity # sunlightIntensity
    /\ lastAppliedConfig # None
    /\ lastAppliedConfig[1].intensity = lastEvent.call[1].intensity
    /\ lastAppliedConfig[1].effect = lastEvent.call[1].effect

\* C8: Download with no generated image saves no file and changes no state
\* variable.
DownloadWithoutResultNoOp ==
    [][(lastEvent'.op = "handleDownload" /\ generatedImage = None)
       => /\ lastEvent'.saved = None
          /\ UNCHANGED <<appState, reads, pending>>]_vars

\* C8 witness: a download was just requested with an image uploaded and no
\* generated image, and nothing was saved.
DownloadWithoutResultNoOpWitness ==
    /\ lastEvent.op = "handleDownload"
    /\ lastEvent.saved = None
    /\ generatedImage = None
    /\ originalImage # None

\* C9: when a remote call completes, by success or by failure, loading is
\* false and activeProcess is none.
CompletionClearsLoading ==
    lastEvent.op \in {"resolved", "rejected"} => (~isLoading /\ activeProcess = None)

\* C9 witness: a remote call just failed and the flags are cleared.
CompletionClearsLoadingWitness ==
    /\ lastEvent.op = "rejected"
    /\ ~isLoading
    /\ activeProcess = None
    /\ error # None

\* C10: when two overlapping calls both succeed, the one that resolves last
\* wins, whichever was started last: the generated result is its image.
LastResolvedWins ==
    (lastEvent.op = "resolved" /\ lastEvent.before # None)
    => generatedImage = lastEvent.value

\* C10 witness: the call started first resolved right after the call started
\* later, with another image, and its image is the generated result.
LastResolvedWinsWitness ==
    /\ lastEvent.op = "resolved"
    /\ lastEvent.before # None
    /\ lastEvent.before[1].startedLater
    /\ lastEvent.before[1].image # lastEvent.value[1]
    /\ generatedImage = lastEvent.value
    /\ pending = <<>>

\* C11: starting a RequestEffect with an image uploaded sets loading, sets
\* activeProcess to the request's tag (the effect, or "variation"), clears the
\* error and the generated result, and issues one remote call, which receives
\* the image uploaded at that moment.
StartSetsFlagsAndSendsImage ==
    [][/\ (lastEvent'.op = "handleEffectClick" /\ originalImage # None)
          => /\ Len(pending') = Len(pending) + 1
             /\ SubSeq(pending', 1, Len(pending)) = pending
             /\ pending'[Len(pending')].image = originalImage
             /\ pending'[Len(pending')].effect = lastEvent'.value[1]
             /\ isLoading'
             /\ activeProcess' = lastEvent'.value
             /\ error' = None
             /\ generatedImage' = None
       /\ (lastEvent'.op = "handleVariationClick" /\ lastAppliedConfig # None
             /\ originalImage # None)
          => /\ Len(pending') = Len(pending) + 1
             /\ SubSeq(pending', 1, Len(pending)) = pending
             /\ pending'[Len(pending')].image = originalImage
             /\ isLoading'
             /\ activeProcess' = Some("variation")
             /\ error' = None
             /\ generatedImage' = None]_vars

\* C11 witness: an effect was just requested while a generated result and an
\* error were shown; the call in flight carries the uploaded image.
StartSetsFlagsAndSendsImageWitness ==
    /\ lastEvent.op = "handleEffectClick"
    /\ lastEvent.full
    /\ Len(lastEvent.started) = 1
    /\ originalImage # None
    /\ lastEvent.started[1].image = originalImage
    /\ isLoading
    /\ activeProcess = lastEvent.value
    /\ error = None
    /\ generatedImage = None

\* C12: when the remote call fails, the error is the failure's message, or the
\* fallback text when the message is absent or empty; the last applied
\* configuration, UploadedImage and the generated result are unchanged and no
\* call is started again.
FailureSetsErrorOnly ==
    [][lastEvent'.op = "rejected"
       => /\ error' = Some(IF lastEvent'.value[1] # <<>>
                             THEN lastEvent'.value[1]
                             ELSE FallbackMessage)
          /\ UNCHANGED <<lastAppliedConfig, originalImage, generatedImage>>
          /\ Len(pending') = Len(pending) - 1
          /\ \A k \in 1..Len(pending') : \E j \in 1..Len(pending) : pending'[k] = pending[j]]_vars

\* C12 witness: a call just failed without a message and the fallback text is
\* the error, a configuration being stored.
FailureSetsErrorOnlyWitness ==
    /\ lastEvent.op = "rejected"
    /\ lastEvent.value = Some(NoMessage)
    /\ error = Some(FallbackMessage)
    /\ lastAppliedConfig # None
    /\ pending = <<>>

\* The name without its last extension: all of it when it holds no dot.
StemOf(name) ==
    IF Len(Split(name, ".")) = 1 THEN name ELSE Join(DropLast(Split(name, ".")), ".")

\* C13: Download with a generated image saves a file named
\* <original-stem>-<effect>.png, the stem being the uploaded file's name without
\* its last extension and the effect the one of the last applied
\* configuration, or "enhanced" without one, for every file name.
DownloadNameIsStemAndEffect ==
    (lastEvent.op = "handleDownload" /\ generatedImage # None)
    => /\ lastEvent.saved # None
       /\ lastEvent.saved[1].download =
            StemOf(originalImage[1].name)
              \o <<"-",
                   IF lastAppliedConfig # None THEN lastAppliedConfig[1].effect ELSE "enhanced",
                   ".png">>

\* C14: a generated result was produced by a remote call made on the image
\* that is uploaded now: a call that resolves was issued with that image.
ResultFromCurrentImage ==
    lastEvent.op = "resolved" => lastEvent.call[1].image = originalImage

\* C15: whenever a generated result is present, the last applied configuration
\* is present too and holds the parameters of the remote call that produced
\* the result.
ResultHasItsConfig ==
    /\ generatedImage # None => lastAppliedConfig # None
    /\ lastEvent.op = "resolved"
       => lastAppliedConfig = Some([effect |-> lastEvent.call[1].effect,
                                    intensity |-> lastEvent.call[1].intensity,
                                    direction |-> lastEvent.call[1].direction])

\* C16: loading is true exactly when a remote call is pending, and
\* activeProcess is none exactly when loading is false.
LoadingIffPending ==
    /\ isLoading <=> Len(pending) > 0
    /\ activeProcess = None <=> ~isLoading

\* C17: while loading is true both effect menus are closed.
MenusClosedWhileLoading ==
    isLoading => (~isAddMenuOpen /\ ~isRemoveMenuOpen)

\* C18: every call being answered, from a state with loading true the page
\* reaches a state with loading false and activeProcess none in which the
\* generated result or the error is the outcome of a call.
LoadingEventuallyClears ==
    isLoading ~> (/\ ~isLoading
                  /\ activeProcess = None
                  /\ lastEvent.op \in {"resolved", "rejected"}
                  /\ lastEvent.op = "resolved" => generatedImage = lastEvent.value
                  /\ lastEvent.op = "rejected"
                     => error = Some(IF lastEvent.value[1] # <<>>
                                       THEN lastEvent.value[1]
                                       ELSE FallbackMessage))

\* C18 witness: a call was just answered with an image, which is the
\* generated result; loading is false and nothing else is in flight.
LoadingEventuallyClearsWitness ==
    /\ lastEvent.op = "resolved"
    /\ generatedImage = lastEvent.value
    /\ ~isLoading
    /\ activeProcess = None
    /\ pending = <<>>

====
